---- MODULE Spec2Model ----
(***************************************************************************)
(* The LLM provider/model selector (AIService), the credential            *)
(* registration command (registerLLMAPIKey) and the fix recommendation    *)
(* cycler (AIStepFixer) of the ZenML VS Code extension.                   *)
(*                                                                         *)
(* JavaScript strings are sequences of one-character strings, so that     *)
(* split, replaceAll, startsWith, slice, toUpperCase and toLowerCase are  *)
(* computed as the code computes them.  Texts of files are sequences of   *)
(* lines (the text split on "\n").                                        *)
(***************************************************************************)
EXTENDS Integers, Sequences, FiniteSets, TLC

VARIABLES
    provider,            \* AIService.provider
    model,               \* AIService.model
    config,              \* the configuration value zenml.llm-model
    env,                 \* process.env, restricted to the <PROVIDER>_API_KEY names
    secrets,             \* context.secrets, restricted to the zenml.<provider>.key names
    req,                 \* the fixMyPipelineRequest call in flight and what it did
    reg,                 \* the registerLLMAPIKey command in flight and what it did
    codeRecommendations, \* AIStepFixer.codeRecommendations
    document,            \* the editor's text of each file, as lines
    disk,                \* the saved text of each file, as lines
    lastEdit,            \* the last call of editStepFile
    response,            \* a chat completion's text, as tokens
    snippets             \* extractPythonSnippets(response), once computed

selectorVars == <<provider, model, config, env, secrets, req, reg>>
cyclerVars == <<codeRecommendations, document, disk, lastEdit>>
extractVars == <<response, snippets>>
vars == <<provider, model, config, env, secrets, req, reg,
          codeRecommendations, document, disk, lastEdit, response, snippets>>

(***************************************************************************)
(* Strings                                                                 *)
(***************************************************************************)

\* null and undefined; the empty string is <<>>, and both are falsy
Null == <<"null">>

Truthy(s) == s # Null /\ s # <<>>

Lowers == <<"a", "b", "c", "d", "e", "f", "g", "h", "i", "j", "k", "l", "m",
            "n", "o", "p", "q", "r", "s", "t", "u", "v", "w", "x", "y", "z">>

Uppers == <<"A", "B", "C", "D", "E", "F", "G", "H", "I", "J", "K", "L", "M",
            "N", "O", "P", "Q", "R", "S", "T", "U", "V", "W", "X", "Y", "Z">>

toUpperCase(s) ==
    [i \in 1..Len(s) |->
        IF \E k \in 1..Len(Lowers) : Lowers[k] = s[i]
        THEN Uppers[CHOOSE k \in 1..Len(Lowers) : Lowers[k] = s[i]]
        ELSE s[i]]

toLowerCase(s) ==
    [i \in 1..Len(s) |->
        IF \E k \in 1..Len(Uppers) : Uppers[k] = s[i]
        THEN Lowers[CHOOSE k \in 1..Len(Uppers) : Uppers[k] = s[i]]
        ELSE s[i]]

startsWith(s, prefix) ==
    Len(s) >= Len(prefix) /\ SubSeq(s, 1, Len(prefix)) = prefix

\* s.slice(n): the string without its first n characters
slice(s, n) == IF n >= Len(s) THEN <<>> ELSE SubSeq(s, n + 1, Len(s))

RECURSIVE replaceAll(_, _, _)
replaceAll(s, pattern, replacement) ==
    IF \A i \in 1..Len(s) : s[i] # pattern[1] THEN s
    ELSE IF Len(s) < Len(pattern) THEN s
    ELSE IF startsWith(s, pattern)
         THEN replacement \o replaceAll(slice(s, Len(pattern)), pattern, replacement)
         ELSE <<s[1]>> \o replaceAll(Tail(s), pattern, replacement)

RECURSIVE splitFrom(_, _, _)
splitFrom(s, separator, current) ==
    IF Len(s) < Len(separator) THEN <<current \o s>>
    ELSE IF startsWith(s, separator)
         THEN <<current>> \o splitFrom(slice(s, Len(separator)), separator, <<>>)
         ELSE splitFrom(Tail(s), separator, Append(current, s[1]))

split(s, separator) == splitFrom(s, separator, <<>>)

Range(f) == {f[i] : i \in DOMAIN f}

(***************************************************************************)
(* AIService: the supported providers and models                          *)
(***************************************************************************)

anthropic == <<"a", "n", "t", "h", "r", "o", "p", "i", "c">>
gemini == <<"g", "e", "m", "i", "n", "i">>
openai == <<"o", "p", "e", "n", "a", "i">>

supportedLLMProviders == <<anthropic, gemini, openai>>

supportedAnthropicModels ==
    << <<"c", "l", "a", "u", "d", "e", "-", "3", "-", "5", "-", "s", "o", "n",
         "n", "e", "t", "-", "2", "0", "2", "4", "0", "6", "2", "0">>,
       <<"c", "l", "a", "u", "d", "e", "-", "3", "-", "o", "p", "u", "s", "-",
         "2", "0", "2", "4", "0", "2", "2", "9">>,
       <<"c", "l", "a", "u", "d", "e", "-", "3", "-", "h", "a", "i", "k", "u",
         "-", "2", "0", "2", "4", "0", "3", "0", "7">> >>

supportedGeminiModels ==
    << <<"g", "e", "m", "i", "n", "i", "-", "1", ".", "5", "-", "p", "r", "o">>,
       <<"g", "e", "m", "i", "n", "i", "-", "1", ".", "5", "-", "f", "l", "a",
         "s", "h">>,
       <<"g", "e", "m", "i", "n", "i", "-", "1", ".", "0", "-", "p", "r", "o">> >>

supportedOpenAIModels ==
    << <<"g", "p", "t", "-", "4", "o">>,
       <<"g", "p", "t", "-", "4", "o", "-", "m", "i", "n", "i">>,
       <<"g", "p", "t", "-", "4", "-", "t", "u", "r", "b", "o">>,
       <<"g", "p", "t", "-", "3", ".", "5", "-", "t", "u", "r", "b", "o">> >>

supportedModels(p) ==
    IF p = anthropic THEN supportedAnthropicModels
    ELSE IF p = gemini THEN supportedGeminiModels
    ELSE supportedOpenAIModels

\* the types of setModel's parameters
SupportedLLMProviders == Range(supportedLLMProviders)

SupportedLLMModels ==
    Range(supportedAnthropicModels) \cup Range(supportedGeminiModels)
        \cup Range(supportedOpenAIModels)

\* an encode that escapes nothing
encodeNothing(str) == str

encode(str) == replaceAll(str, <<".">>, <<"%", "2", "E">>)

decode(str) == replaceAll(str, <<"%", "2", "E">>, <<".">>)

\* this.provider.toUpperCase() followed by _API_KEY
keyStr(p) == toUpperCase(p) \o <<"_", "A", "P", "I", "_", "K", "E", "Y">>

\* zenml.<provider>.key
secretKey(p) == <<"z", "e", "n", "m", "l", ".">> \o p \o <<".", "k", "e", "y">>

EnvNames == {keyStr(p) : p \in SupportedLLMProviders}

SecretKeys == {secretKey(p) : p \in SupportedLLMProviders}

(***************************************************************************)
(* AIService: selection                                                    *)
(***************************************************************************)

\* const [provider, model] = configuration.split('.'), each decoded.  With
\* fewer than two parts model is undefined and decode(undefined) throws; no
\* configuration setModel writes has fewer than two parts.
decodeConfiguration(configuration) ==
    LET parts == split(configuration, <<".">>)
    IN  <<decode(parts[1]), IF Len(parts) >= 2 THEN decode(parts[2]) ELSE Null>>

\* encode(provider), a dot, encode(model)
encodeConfiguration(p, m) == encode(p) \o <<".">> \o encode(m)

\* the keys the process environment and the secret store start with
EnvKey == <<"E">>
StoredKey == <<"S">>
\* what the user can type into the key input box
UserKeys == {<<>>, <<"U">>}

InitialEnvs ==
    {[n \in EnvNames |-> Null]}
        \cup {[n \in EnvNames |-> IF n = k THEN EnvKey ELSE Null] : k \in EnvNames}

InitialSecrets ==
    {[n \in SecretKeys |-> Null]}
        \cup {[n \in SecretKeys |-> IF n = k THEN StoredKey ELSE Null] : k \in SecretKeys}

InitialConfigs ==
    {Null} \cup {encodeConfiguration(p, supportedModels(p)[1]) : p \in SupportedLLMProviders}

\* how many fix requests and how many registration commands a run follows
MaxRequests == 2
MaxRegistrations == 1

IdleRequest ==
    [runs |-> 0, pc |-> "idle", keyStr |-> Null, secretKey |-> Null, apiKey |-> Null,
     result |-> "none", errorMessage |-> Null, selectLLM |-> FALSE,
     registerLLMAPIKey |-> FALSE, created |-> 0, code |-> <<>>]

IdleRegistration ==
    [runs |-> 0, pc |-> "idle", label |-> Null, apiKey |-> Null, prompt |-> Null,
     warning |-> FALSE, information |-> FALSE]

\* the instance getInstance constructs in a new extension host
Constructor ==
    /\ req.pc \in {"idle", "returned"}
    /\ reg.pc \in {"idle", "returned"}
    /\ IF config = Null
       THEN provider' = Null /\ model' = Null
       ELSE /\ provider' = decodeConfiguration(config)[1]
            /\ model' = decodeConfiguration(config)[2]
    /\ env' \in InitialEnvs
    /\ req' = [IdleRequest EXCEPT !.runs = req.runs]
    /\ reg' = [IdleRegistration EXCEPT !.runs = reg.runs]
    /\ UNCHANGED <<config, secrets, cyclerVars, extractVars>>

setModel(p, m) ==
    /\ provider' = decode(p)
    /\ model' = decode(m)
    /\ config' = encodeConfiguration(p, m)
    /\ UNCHANGED <<env, secrets, req, reg, cyclerVars, extractVars>>

(***************************************************************************)
(* AIService: fixMyPipelineRequest                                         *)
(***************************************************************************)

python == <<"p", "y", "t", "h", "o", "n">>

\* the backquote character, spelled out: the lexer takes none in a string
Backquote == "backquote"

fence == <<Backquote, Backquote, Backquote>>

PrefixLength == 7

extractPythonSnippets(text) ==
    LET parts == split(text, fence)
        kept == SelectSeq(parts, LAMBDA ele : startsWith(ele, python))
    IN  [i \in 1..Len(kept) |-> slice(kept[i], PrefixLength)]

\* what tokenjs.chat.completions.create can answer: it throws, or the content
\* of the first choice is null or a text
Completions ==
    {[throws |-> TRUE, content |-> Null],
     [throws |-> FALSE, content |-> Null],
     [throws |-> FALSE, content |-> <<"o", "k">>],
     [throws |-> FALSE, content |-> fence \o python \o <<"\n", "x", "\n">> \o fence]}

\* the call returns: its locals are gone, what it did stays observable
returned(r, result) ==
    [r EXCEPT !.pc = "returned", !.result = result,
              !.keyStr = Null, !.secretKey = Null, !.apiKey = Null]

\* AIStepFixer.selectLLM: the prompt to select a provider and a model
selectLLM(r) == [r EXCEPT !.selectLLM = TRUE]

\* vscode.commands.executeCommand of zenml.registerLLMAPIKey: the command
\* starts; the model follows it unless the registration it follows is still
\* running or it has followed MaxRegistrations of them
executeRegisterLLMAPIKey(g) ==
    IF g.pc \in {"idle", "returned"} /\ g.runs < MaxRegistrations
    THEN [IdleRegistration EXCEPT !.pc = "showQuickPick", !.runs = g.runs + 1]
    ELSE g

noSelection(p, m) == ~Truthy(p) \/ ~Truthy(m)

\* the call without its check of the selection: setAPIKey returns at once
\* when no provider is set, and the chat completion is created
fixMyPipelineRequestUnchecked ==
    /\ req.pc \in {"idle", "returned"}
    /\ req.runs < MaxRequests
    /\ IF ~Truthy(provider)
       THEN req' = [IdleRequest EXCEPT
                       !.runs = req.runs + 1, !.pc = "completion", !.created = 1]
       ELSE req' = [IdleRequest EXCEPT
                       !.runs = req.runs + 1,
                       !.pc = "secretsGet",
                       !.keyStr = keyStr(provider),
                       !.secretKey = secretKey(provider)]
    /\ UNCHANGED <<provider, model, config, env, secrets, reg, cyclerVars, extractVars>>

\* the call, up to the secret store read setAPIKey awaits
fixMyPipelineRequest ==
    /\ req.pc \in {"idle", "returned"}
    /\ req.runs < MaxRequests
    /\ IF noSelection(provider, model)
       THEN req' = returned(
                       [selectLLM(IdleRequest) EXCEPT
                           !.runs = req.runs + 1,
                           !.errorMessage = <<"No AI model selected", Null>>],
                       "undefined")
       ELSE req' = [IdleRequest EXCEPT
                       !.runs = req.runs + 1,
                       !.pc = "secretsGet",
                       !.keyStr = keyStr(provider),
                       !.secretKey = secretKey(provider)]
    /\ UNCHANGED <<provider, model, config, env, secrets, reg, cyclerVars, extractVars>>

\* context.secrets.get reads the store
requestSecretsGet ==
    /\ req.pc = "secretsGet"
    /\ req' = [req EXCEPT !.pc = "setAPIKey", !.apiKey = secrets[req.secretKey]]
    /\ UNCHANGED <<provider, model, config, env, secrets, reg, cyclerVars, extractVars>>

\* the assignment without its test of process.env[keyStr]
setAPIKeyEnvOverwrites(e, name, apiKey) ==
    IF Truthy(apiKey) THEN [e EXCEPT ![name] = apiKey] ELSE e

\* if (!process.env[keyStr] && apiKey) process.env[keyStr] = apiKey
setAPIKeyEnv(e, name, apiKey) ==
    IF ~Truthy(e[name]) /\ Truthy(apiKey) THEN [e EXCEPT ![name] = apiKey] ELSE e

\* a setAPIKey that never throws
setAPIKeyNeverThrows(e, name, apiKey) == FALSE

\* if (!process.env[keyStr] && !apiKey) throw
setAPIKeyThrows(e, name, apiKey) == ~Truthy(e[name]) /\ ~Truthy(apiKey)

\* setAPIKey after its await, then the catch or the chat completion call
setAPIKey ==
    /\ req.pc = "setAPIKey"
    /\ env' = setAPIKeyEnv(env, req.keyStr, req.apiKey)
    /\ IF setAPIKeyThrows(env', req.keyStr, req.apiKey)
       THEN /\ req' = returned(
                          [req EXCEPT
                              !.errorMessage = <<"No API key configured", provider>>,
                              !.registerLLMAPIKey = TRUE],
                          "undefined")
            /\ reg' = executeRegisterLLMAPIKey(reg)
       ELSE /\ req' = [req EXCEPT !.pc = "completion", !.created = @ + 1,
                                   !.keyStr = Null, !.secretKey = Null, !.apiKey = Null]
            /\ reg' = reg
    /\ UNCHANGED <<provider, model, config, secrets, cyclerVars, extractVars>>

\* the chat completion's answer, to the return
completion ==
    /\ req.pc = "completion"
    /\ \E answer \in Completions :
        req' = IF answer.throws
               THEN returned(
                        [req EXCEPT !.errorMessage = <<"Something went wrong", Null>>],
                        "undefined")
               ELSE IF answer.content = Null
               THEN returned(req, "undefined")
               ELSE returned(
                        [req EXCEPT !.code = extractPythonSnippets(answer.content)],
                        "fix")
    /\ UNCHANGED <<provider, model, config, env, secrets, reg, cyclerVars, extractVars>>

(***************************************************************************)
(* registerLLMAPIKey                                                       *)
(***************************************************************************)

Labels ==
    {<<"A", "n", "t", "h", "r", "o", "p", "i", "c">>,
     <<"G", "e", "m", "i", "n", "i">>,
     <<"O", "p", "e", "n", "A", "I">>}

\* the command starts and shows the quick pick
registerLLMAPIKey ==
    /\ reg.pc \in {"idle", "returned"}
    /\ reg.runs < MaxRegistrations
    /\ reg' = [IdleRegistration EXCEPT !.pc = "showQuickPick", !.runs = reg.runs + 1]
    /\ UNCHANGED <<provider, model, config, env, secrets, req, cyclerVars, extractVars>>

\* what a dismissed prompt returns with
canceled(g) ==
    [g EXCEPT !.pc = "returned", !.warning = TRUE,
              !.label = Null, !.apiKey = Null, !.prompt = Null]

\* the quick pick resolves: dismissed (undefined) or one of the options
showQuickPick ==
    /\ reg.pc = "showQuickPick"
    /\ \E selectedOption \in Labels \cup {Null} :
        reg' = IF selectedOption = Null
               THEN canceled(reg)
               ELSE [reg EXCEPT !.pc = "secretsGet", !.label = selectedOption]
    /\ UNCHANGED <<provider, model, config, env, secrets, req, cyclerVars, extractVars>>

\* context.secrets.get reads the store, and the input box opens; the value
\* read is only tested for the prompt, and the input replaces it
registerSecretsGet ==
    /\ reg.pc = "secretsGet"
    /\ LET apiKey == secrets[secretKey(toLowerCase(reg.label))]
       IN  reg' = [reg EXCEPT
                      !.pc = "showInputBox",
                      !.prompt = IF Truthy(apiKey) THEN <<"already exists">>
                                 ELSE <<"please enter">>]
    /\ UNCHANGED <<provider, model, config, env, secrets, req, cyclerVars, extractVars>>

\* the input box with the environment variable assigned before the test
\* for a dismissed box
showInputBoxAssignsFirst ==
    /\ reg.pc = "showInputBox"
    /\ \E apiKey \in UserKeys \cup {Null} :
        /\ env' = [env EXCEPT
                      ![toUpperCase(reg.label) \o <<"_", "A", "P", "I", "_", "K", "E", "Y">>]
                          = apiKey]
        /\ reg' = IF apiKey = Null
                  THEN canceled([reg EXCEPT !.apiKey = apiKey])
                  ELSE [reg EXCEPT !.pc = "secretsStore", !.apiKey = apiKey]
    /\ UNCHANGED <<provider, model, config, secrets, req, cyclerVars, extractVars>>

\* the input box resolves: dismissed (undefined) or the text typed
showInputBox ==
    /\ reg.pc = "showInputBox"
    /\ \E apiKey \in UserKeys \cup {Null} :
        reg' = IF apiKey = Null
               THEN canceled([reg EXCEPT !.apiKey = apiKey])
               ELSE [reg EXCEPT !.pc = "secretsStore", !.apiKey = apiKey]
    /\ UNCHANGED <<provider, model, config, env, secrets, req, cyclerVars, extractVars>>

\* context.secrets.store writes the store
secretsStore ==
    /\ reg.pc = "secretsStore"
    /\ secrets' = [secrets EXCEPT ![secretKey(toLowerCase(reg.label))] = reg.apiKey]
    /\ reg' = [reg EXCEPT !.pc = "stored"]
    /\ UNCHANGED <<provider, model, config, env, req, cyclerVars, extractVars>>

\* after the store: the environment variable is set and the command returns
registerSetEnv ==
    /\ reg.pc = "stored"
    /\ env' = [env EXCEPT
                  ![toUpperCase(reg.label) \o <<"_", "A", "P", "I", "_", "K", "E", "Y">>]
                      = reg.apiKey]
    /\ reg' = [reg EXCEPT !.pc = "returned", !.information = TRUE,
                          !.label = Null, !.apiKey = Null, !.prompt = Null]
    /\ UNCHANGED <<provider, model, config, secrets, req, cyclerVars, extractVars>>

(***************************************************************************)
(* The selector's specification                                            *)
(***************************************************************************)

InitCycler0 ==
    /\ codeRecommendations = <<>>
    /\ document = <<>>
    /\ disk = <<>>
    /\ lastEdit = Null

InitExtract0 ==
    /\ response = <<>>
    /\ snippets = Null

Init ==
    /\ config \in InitialConfigs
    /\ IF config = Null
       THEN provider = Null /\ model = Null
       ELSE /\ provider = decodeConfiguration(config)[1]
            /\ model = decodeConfiguration(config)[2]
    /\ env \in InitialEnvs
    /\ secrets \in InitialSecrets
    /\ req = IdleRequest
    /\ reg = IdleRegistration
    /\ InitCycler0
    /\ InitExtract0

Next ==
    \/ \E p \in SupportedLLMProviders : setModel(p, supportedModels(p)[1])
    \/ fixMyPipelineRequest
    \/ requestSecretsGet
    \/ setAPIKey
    \/ completion
    \/ registerLLMAPIKey
    \/ showQuickPick
    \/ registerSecretsGet
    \/ showInputBox
    \/ secretsStore
    \/ registerSetEnv

Spec == Init /\ [][Next]_vars

(***************************************************************************)
(* The selection's specification: every pair setModel's types allow, and   *)
(* the constructor reading the configuration back in a new extension host  *)
(***************************************************************************)

NextSelection ==
    \/ Constructor
    \/ \E p \in SupportedLLMProviders, m \in SupportedLLMModels : setModel(p, m)

SpecSelection == Init /\ [][NextSelection]_vars

(***************************************************************************)
(* extractPythonSnippets on its own: the responses are the concatenations  *)
(* of at most MaxTokens tokens                                             *)
(***************************************************************************)

MaxTokens == 4

Tokens ==
    {fence, python, <<"\n">>, <<"x">>, <<" ">>, <<"t", "e", "x", "t">>}

RECURSIVE Flatten(_)
Flatten(tokens) ==
    IF tokens = <<>> THEN <<>> ELSE Head(tokens) \o Flatten(Tail(tokens))

InitSelector0 ==
    /\ provider = Null
    /\ model = Null
    /\ config = Null
    /\ env = [n \in EnvNames |-> Null]
    /\ secrets = [n \in SecretKeys |-> Null]
    /\ req = IdleRequest
    /\ reg = IdleRegistration

InitExtract ==
    /\ InitSelector0
    /\ InitCycler0
    /\ response \in UNION {[1..n -> Tokens] : n \in 0..MaxTokens}
    /\ snippets = Null

\* const pythonSnippets = this.extractPythonSnippets(response)
extract ==
    /\ snippets = Null
    /\ snippets' = extractPythonSnippets(Flatten(response))
    /\ UNCHANGED <<selectorVars, cyclerVars, response>>

SpecExtract == InitExtract /\ [][extract]_vars

(***************************************************************************)
(* AIStepFixer: the fix recommendation cycler                              *)
(***************************************************************************)

\* how many recommendations are created, and how many edits a file gets
MaxRecommendations == 2
MaxEdits == 3

Files == {"steps/a.py", "steps/b.py"}

\* "a\nb\nc\nd\n"
InitialText == <<"a", "b", "c", "d", "">>

\* the snippets to replace: blocks of whole lines of the file
SourceCodes == {<<"b">>, <<"b", "c">>}

\* the candidate lists: each candidate the body of a fenced block, ending
\* with the newline before the closing fence
Codes ==
    { << <<"x", "">>, <<"x", "y", "">>, <<"z", "">> >>,
      << <<"v", "">>, <<"w", "">> >> }

\* the line of the first occurrence of substr in str as a block of whole
\* lines; -1 stands for null
findFirstLineNumber(str, substr) ==
    LET n == Len(substr)
        hits == {i \in 0..(Len(str) - n) : SubSeq(str, i + 1, i + n) = substr}
    IN  IF hits = {} THEN -1 ELSE CHOOSE i \in hits : \A j \in hits : i <= j

\* text a followed by text b: the last line of a runs into the first of b
Concat(a, b) ==
    SubSeq(a, 1, Len(a) - 1) \o <<a[Len(a)] \o b[1]>> \o Tail(b)

\* edit.replace(fileUri, new Range((firstLine, 0), (lastLine, 0)), newContent),
\* applied: a position after the last line is the end of the document
replace(text, firstLine, lastLine, newContent) ==
    IF firstLine >= Len(text) THEN Concat(text, newContent)
    ELSE IF lastLine >= Len(text) THEN SubSeq(text, 1, firstLine) \o newContent
    ELSE SubSeq(text, 1, firstLine)
             \o Concat(newContent, SubSeq(text, lastLine + 1, Len(text)))

\* success is what applyEdit answers
editStepFile(filePath, newContent, oldContent, open, success) ==
    LET fileContents == disk[filePath]
        found == findFirstLineNumber(fileContents, oldContent)
        firstLine == IF found <= 0 THEN 0 ELSE found
        lastLine == firstLine + Len(oldContent)
    IN  /\ document' =
              IF success
              THEN [document EXCEPT
                       ![filePath] = replace(@, firstLine, lastLine, newContent)]
              ELSE document
        /\ lastEdit' =
              [lastEdit EXCEPT
                  ![filePath] =
                      [edits |-> @.edits + 1,
                       newContent |-> newContent,
                       failed |-> @.failed \/ ~success,
                       compareWithSaved |-> success /\ open,
                       errorMessage |-> ~success]]

createCodeRecommendation(filePath, code, sourceCode, success) ==
    /\ Len(codeRecommendations) < MaxRecommendations
    /\ lastEdit[filePath].edits < MaxEdits
    /\ codeRecommendations' =
          Append(codeRecommendations,
                 [filePath |-> filePath, code |-> code, sourceCode |-> sourceCode,
                  currentCodeIndex |-> 0])
    /\ editStepFile(filePath, code[1], sourceCode, TRUE, success)
    /\ UNCHANGED <<selectorVars, disk, extractVars>>

\* codeRecommendations.find(rec => rec.filePath === filePath); <<>> stands
\* for undefined
find(recs, filePath) ==
    LET hits == {i \in 1..Len(recs) : recs[i].filePath = filePath}
    IN  IF hits = {} THEN <<>>
        ELSE recs[CHOOSE i \in hits : \A j \in hits : i <= j]

\* rec.currentCodeIndex + 1 < rec.code.length ? rec.currentCodeIndex + 1 : 0
nextCodeIndex(rec) ==
    IF rec.currentCodeIndex + 1 < Len(rec.code) THEN rec.currentCodeIndex + 1 ELSE 0

updateCodeRecommendation(filePath, success) ==
    LET rec == find(codeRecommendations, filePath)
    IN  /\ lastEdit[filePath].edits < MaxEdits
        /\ IF rec = <<>>
           THEN UNCHANGED <<document, lastEdit>>
           ELSE editStepFile(filePath, rec.code[nextCodeIndex(rec) + 1],
                             rec.sourceCode, FALSE, success)
        /\ UNCHANGED <<selectorVars, codeRecommendations, disk, extractVars>>

\* the user saves the file: fs.readFile reads what was saved
save(filePath) ==
    /\ disk[filePath] # document[filePath]
    /\ disk' = [disk EXCEPT ![filePath] = document[filePath]]
    /\ UNCHANGED <<selectorVars, codeRecommendations, document, lastEdit, extractVars>>

NoEdit ==
    [edits |-> 0, newContent |-> <<>>, failed |-> FALSE,
     compareWithSaved |-> FALSE, errorMessage |-> FALSE]

InitCycler ==
    /\ InitSelector0
    /\ InitExtract0
    /\ codeRecommendations = <<>>
    /\ document = [f \in Files |-> InitialText]
    /\ disk = [f \in Files |-> InitialText]
    /\ lastEdit = [f \in Files |-> NoEdit]

NextCycler ==
    \/ \E f \in Files, code \in Codes, sourceCode \in SourceCodes, success \in BOOLEAN :
           createCodeRecommendation(f, code, sourceCode, success)
    \/ \E f \in Files, success \in BOOLEAN : updateCodeRecommendation(f, success)
    \/ \E f \in Files : save(f)

SpecCycler == InitCycler /\ [][NextCycler]_vars

(***************************************************************************)
(* The cycler's properties                                                 *)
(***************************************************************************)

Tracked(f) == {i \in 1..Len(codeRecommendations) : codeRecommendations[i].filePath = f}

\* a file with one createCodeRecommendation so far: its edits are that
\* creation's and the advances after it
CreatedOnce(f) == Cardinality(Tracked(f)) = 1

\* C1: after createCodeRecommendation and k advances on the same file the
\* recommendation's currentCodeIndex is k mod n and the candidate applied last
\* is code[k mod n], n the number of candidates: each advance moves the index
\* on by one and wraps to 0 after the last candidate.
AdvanceCyclesThroughCandidates ==
    \A f \in Files :
        CreatedOnce(f) =>
            LET rec == find(codeRecommendations, f)
                k == lastEdit[f].edits - 1
                n == Len(rec.code)
            IN  /\ rec.currentCodeIndex = k % n
                /\ lastEdit[f].newContent = rec.code[(k % n) + 1]

\* C2: at most one recommendation is tracked per file path, and the one an
\* advance uses is the one created last for that path.
OneRecommendationPerFile ==
    \A f \in Files :
        /\ Cardinality(Tracked(f)) <= 1
        /\ Tracked(f) # {} =>
              find(codeRecommendations, f) =
                  codeRecommendations[CHOOSE i \in Tracked(f) : \A j \in Tracked(f) : j <= i]

\* the file's text with the lines of oldContent replaced by newContent
BlockReplaced(text, oldContent, newContent) ==
    LET at == findFirstLineNumber(text, oldContent)
    IN  SubSeq(text, 1, at)
            \o Concat(newContent, SubSeq(text, at + Len(oldContent) + 1, Len(text)))

\* C10: after createCodeRecommendation and any number of advances on a file,
\* every edit applied, the document is the original text with exactly the
\* lines of sourceCode replaced by the candidate applied last, saved or not.
OnlyTheBlockIsReplaced ==
    \A f \in Files :
        (CreatedOnce(f) /\ ~lastEdit[f].failed) =>
            document[f] =
                BlockReplaced(InitialText, find(codeRecommendations, f).sourceCode,
                              lastEdit[f].newContent)

(***************************************************************************)
(* The properties of extractPythonSnippets                                 *)
(***************************************************************************)

\* the fenced blocks of a text, in order: what stands between an opening
\* fence and the next fence (or the end of the text)
FencedBlocks(text) ==
    LET parts == split(text, fence)
    IN  [i \in 1..(Len(parts) \div 2) |-> parts[2 * i]]

\* a block's tag is its first line, its body what follows that line
FirstNewline(block) ==
    IF \E k \in 1..Len(block) : block[k] = "\n"
    THEN CHOOSE k \in 1..Len(block) :
             block[k] = "\n" /\ \A j \in 1..(k - 1) : block[j] # "\n"
    ELSE Len(block) + 1

TagOf(block) == SubSeq(block, 1, FirstNewline(block) - 1)

BodyOf(block) == slice(block, FirstNewline(block))

PythonBlockBodies(text) ==
    LET tagged == SelectSeq(FencedBlocks(text), LAMBDA block : TagOf(block) = python)
    IN  [i \in 1..Len(tagged) |-> BodyOf(tagged[i])]

\* C8: extractPythonSnippets returns, in order, exactly the bodies of the
\* fenced blocks tagged python; blocks with another tag and text outside the
\* fenced blocks give no candidate, and a text without fenced blocks gives
\* the empty sequence.
ExtractsExactlyThePythonBlocks ==
    snippets # Null => snippets = PythonBlockBodies(Flatten(response))

(***************************************************************************)
(* The selection's properties                                              *)
(***************************************************************************)

\* C6: a model that is set is one of the models of the provider that is set
\* (setModel with a model outside the provider's list changes nothing).
ModelIsOneOfTheProvidersModels ==
    provider # Null => model \in Range(supportedModels(provider))

Separators(str) == {i \in 1..Len(str) : str[i] = "."}

\* C7: setModel(p, m), for every provider p and model m of the fixed lists,
\* leaves exactly p and m selected in memory, and the configuration it writes
\* holds one separator and is split and decoded to exactly p and m by the
\* next constructor.
SelectionRoundTrips ==
    [][\A p \in SupportedLLMProviders, m \in SupportedLLMModels :
          setModel(p, m) =>
              /\ provider' = p
              /\ model' = m
              /\ Cardinality(Separators(config')) = 1
              /\ decodeConfiguration(config') = <<p, m>>]_vars

\* a model with a dot in its name is selected and persisted
DottedModelSelected ==
    /\ provider = gemini
    /\ model = supportedGeminiModels[2]
    /\ config = encodeConfiguration(gemini, supportedGeminiModels[2])
    /\ \E i \in 1..Len(model) : model[i] = "."

(***************************************************************************)
(* The properties of fixMyPipelineRequest and registerLLMAPIKey            *)
(***************************************************************************)

\* the step that starts a fix request
RequestStarts == req'.runs = req.runs + 1

\* the step in which setAPIKey resumes after its secret store read
SetAPIKeyResumes == req.pc = "setAPIKey" /\ req'.pc # "setAPIKey"

\* C3: a fix request made while no provider or model is selected returns
\* empty at once, prompts for the selection, and has created no chat
\* completion.
NoSelectionNoCompletion ==
    [][(RequestStarts /\ (provider = Null \/ model = Null)) =>
          /\ req'.pc = "returned"
          /\ req'.result = "undefined"
          /\ req'.selectLLM
          /\ req'.created = 0]_vars

\* a request returned for want of a selection
ReturnedForNoSelection ==
    /\ provider = Null
    /\ req.pc = "returned"
    /\ req.selectLLM
    /\ req.created = 0

\* C4: when the environment variable of the request's provider is unset and
\* the secret store read gave no key, the request returns empty, shows the
\* message that names the selected provider, runs the registration command,
\* and has created no chat completion.
MissingCredentialNoCompletion ==
    [][(SetAPIKeyResumes /\ ~Truthy(env[req.keyStr]) /\ ~Truthy(req.apiKey)) =>
          /\ req'.pc = "returned"
          /\ req'.result = "undefined"
          /\ req'.errorMessage = <<"No API key configured", provider>>
          /\ req'.registerLLMAPIKey
          /\ (reg.pc \in {"idle", "returned"} /\ reg.runs < MaxRegistrations) =>
                 reg'.pc = "showQuickPick"
          /\ req'.created = 0]_vars

\* a request returned for want of a credential, the registration it ran open
ReturnedForMissingCredential ==
    /\ req.pc = "returned"
    /\ req.registerLLMAPIKey
    /\ req.errorMessage = <<"No API key configured", provider>>
    /\ req.created = 0
    /\ reg.pc = "showQuickPick"
    /\ ~Truthy(env[keyStr(provider)])
    /\ ~Truthy(secrets[secretKey(provider)])

\* C5: when setAPIKey resumes, a value the environment variable holds stays
\* and the key read from the secret store is ignored; with the variable unset
\* and a key read, the variable becomes that key; with neither, setAPIKey
\* throws and the environment is left as it was.
CredentialResolution ==
    [][SetAPIKeyResumes =>
          /\ Truthy(env[req.keyStr]) =>
                 env' = env /\ req'.pc = "completion"
          /\ (~Truthy(env[req.keyStr]) /\ Truthy(req.apiKey)) =>
                 env' = [env EXCEPT ![req.keyStr] = req.apiKey] /\ req'.pc = "completion"
          /\ (~Truthy(env[req.keyStr]) /\ ~Truthy(req.apiKey)) =>
                 /\ env' = env
                 /\ req'.pc = "returned"
                 /\ req'.errorMessage[1] = "No API key configured"]_vars

\* setAPIKey is about to resume with a key read from the secret store while a
\* registration has since set the environment variable to another key
EnvSetWhileSecretReadPending ==
    /\ req.pc = "setAPIKey"
    /\ req.apiKey = StoredKey
    /\ env[req.keyStr] \in UserKeys
    /\ Truthy(env[req.keyStr])
    /\ reg.pc = "returned"
    /\ reg.information

\* the registration's steps before anything is stored, and its return from
\* a dismissed prompt
BeforeStore ==
    /\ reg' # reg
    /\ \/ reg'.pc \in {"showQuickPick", "secretsGet", "showInputBox"}
       \/ reg.pc \in {"showQuickPick", "showInputBox"} /\ reg'.pc = "returned"

\* C9: a registration whose provider pick or key input is dismissed returns
\* with the warning and without the success message, and none of its steps
\* has changed the secret store or the environment.
DismissedRegistrationCommitsNothing ==
    [][/\ BeforeStore => UNCHANGED <<env, secrets>>
       /\ (reg.pc \in {"showQuickPick", "showInputBox"} /\ reg'.pc = "returned") =>
              reg'.warning /\ ~reg'.information]_vars

\* a registration returned from a dismissed prompt, keys being in place
RegistrationDismissed ==
    /\ reg.pc = "returned"
    /\ reg.warning
    /\ ~reg.information
    /\ \E n \in EnvNames : Truthy(env[n])
    /\ \E n \in SecretKeys : Truthy(secrets[n])

====
